---- MODULE Spec2Model ----
(***************************************************************************)
(* Model of counter-wip/src/server.ts: the HTTP job server that gates an   *)
(* increment of the counter contract behind a polled payment, its startup  *)
(* sequence and its SIGINT handler.                                        *)
(*                                                                         *)
(* Each action is one run-to-completion step of the Node event loop: the   *)
(* code from one await (or handler entry) to the next await.  Time is the  *)
(* number of milliseconds since a job's poll loop took `start`; it moves   *)
(* only while a flow is suspended (in setTimeout or in the payment query). *)
(***************************************************************************)
EXTENDS Integers, Sequences, FiniteSets, TLC

\* ---------------------------------------------------------------- bounds
MaxJobs == 2        \* accepted /start_job requests
MaxLen == 2         \* entries in a request's input_data array
MaxSignals == 2     \* SIGINT deliveries
MaxOldCalls == 1    \* /start_job_old requests that reach increment
MaxFewJobs == 1     \* accepted /start_job requests in GatewaySpec and LiveSpec
MaxSamples == 1     \* logLedgerState calls in flight at once
MaxClock == 8       \* advances of the wall clock

\* ------------------------------------------------------ program constants
Timeout == 120000       \* const timeout = 120000
PollInterval == 5000    \* setTimeout(r, 5000)
UnlockDelay == 600      \* unlockTime = now + 600
DisputeDelay == 1800    \* externalDisputeUnlockTime = now + 1800
SubmitDelay == 1200     \* submitResultTime = now + 1200

\* A payment query answers at once or after one more poll interval.
Latencies == {0, PollInterval}

\* Date.now() when the model starts and the ms by which it advances.  The
\* readings are small, as the arithmetic done on them does not depend on the
\* epoch: the first is half a second before a second with one more digit.
ClockStart == 999500
ClockTick == 500

\* --------------------------------------------------------------- values
Null == "null"
Undefined == "undefined"
Keys == {"task", "other"}
Values == {"increment", "decrement"}
Entries == [key : Keys, value : Values]

RECURSIVE SeqsUpTo(_)
SeqsUpTo(n) ==
    IF n = 0 THEN {<<>>}
    ELSE LET shorter == SeqsUpTo(n - 1)
         IN  shorter \cup {Append(s, e) : s \in {t \in shorter : Len(t) = n - 1}, e \in Entries}

\* req.body.input_data: an array of entries, or something that is no array.
InputData ==
    [isArray : {TRUE}, items : SeqsUpTo(MaxLen)] \cup [isArray : {FALSE}, items : {<<>>}]

\* What a rejected await carries: an Error with a message, or another value.
Thrown == {[isError |-> TRUE, message |-> "boom"], [isError |-> FALSE, message |-> ""]}

\* The payment service's answers: check.data?.data?.status
PaymentStatuses == {"Success", "Pending"}

TxId == "txId"

\* Every value uuidv4() can return in a run.
Uuids == 1..(1 + 2 * MaxJobs)

VARIABLES
    proc,       \* where runServer / the process is
    exitCode,   \* process.exit's argument, -1 while the process lives
    interval,   \* the setInterval handle: "unset", "active", "cleared"
    closeCalls, \* how often wallet.close() was invoked
    closing,    \* SIGINT handlers suspended in await wallet.close()
    signals,    \* SIGINTs delivered to the handler
    uuids,      \* how many uuidv4() values were drawn
    jobs,       \* the jobs Map: jobId -> {status, result}
    flows,      \* per accepted /start_job: the suspended async handler: where it
                \* is, its paymentId, the ms since `start` while it polls, and
                \* whether a payment query of it has returned or thrown
    paid,       \* history: jobId -> how the payment service answered Success
    incCalls,   \* history: jobId -> api.increment calls made by its flow
    ungated,    \* history: api.increment calls made by /start_job_old
    oldPending, \* /start_job_old handlers suspended in await api.increment
    res,        \* the last reply of POST /start_job
    sampling,   \* logLedgerState calls suspended in await displayCounterValue
    lastSample, \* history: how the last finished logLedgerState call ended
    clock       \* what Date.now() returns: ms of wall-clock time

vars == <<proc, exitCode, interval, closeCalls, closing, signals, uuids, jobs,
          flows, paid, incCalls, ungated, oldPending, res, sampling, lastSample,
          clock>>

procVars == <<proc, exitCode, interval, closeCalls, closing, signals>>
jobVars == <<uuids, jobs, flows, paid, incCalls>>
oldVars == <<ungated, oldPending>>
obsVars == <<sampling, lastSample>>

\* ------------------------------------------------------------- helpers

\* Map.prototype.set: adds the key or replaces its value.
MapSet(m, k, v) == [x \in DOMAIN m \cup {k} |-> IF x = k THEN v ELSE m[x]]

\* Array.prototype.find((entry) => entry.key === 'task'): the first match.
RECURSIVE FindTask(_)
\* Mutant of FindTask: the last match instead of the first.
RECURSIVE FindTaskLast(_)
FindTaskLast(items) ==
    IF items = <<>> THEN Undefined
    ELSE IF items[Len(items)].key = "task" THEN items[Len(items)].value
    ELSE FindTaskLast(SubSeq(items, 1, Len(items) - 1))

FindTask(items) ==
    IF items = <<>> THEN Undefined
    ELSE IF Head(items).key = "task" THEN Head(items).value
    ELSE FindTask(Tail(items))

\* The two 400 checks of POST /start_job.
StartJobCode(d) ==
    IF ~d.isArray THEN 400
    ELSE IF FindTask(d.items) # "increment" THEN 400
    ELSE 200

\* The two 400 checks of POST /start_job_old.
OldStartJobCode(d) ==
    IF ~d.isArray THEN 400
    ELSE IF FindTask(d.items) = Undefined \/ FindTask(d.items) # "increment" THEN 400
    ELSE 200

\* Mutant of ErrMessage: the message property of whatever was thrown.
ErrMessageRaw(err) == err.message

\* err instanceof Error ? err.message : 'Unknown error'
ErrMessage(err) == IF err.isError THEN err.message ELSE "Unknown error"

\* Mutant of LoopCondition: the deadline itself is still inside the loop.
LoopConditionInclusive(confirmed, elapsed) == ~confirmed /\ elapsed <= Timeout

\* while (!confirmed && Date.now() - start < timeout)
LoopCondition(confirmed, elapsed) == ~confirmed /\ elapsed < Timeout

\* Mutant of IsSuccess: any answer of the payment service counts.
IsSuccessAny(status) == status \in {"Success", "Pending"}

\* check.data?.data?.status === 'Success'
IsSuccess(status) == status = "Success"

\* req.query.job_id when the query string has none (no uuid is 0).
NoJobId == 0

\* GET /status?job_id=<id>, as it answers from a given jobs Map.
StatusOf(registry, jobId) ==
    IF jobId = NoJobId \/ jobId \notin DOMAIN registry
    THEN [code |-> 404, job_id |-> NoJobId, status |-> Undefined, result |-> Undefined]
    ELSE [code |-> 200, job_id |-> jobId, status |-> registry[jobId].status,
          result |-> registry[jobId].result]

Status(jobId) == StatusOf(jobs, jobId)

NoReply == [code |-> 0, job_id |-> 0, payment_id |-> 0]

\* Number.prototype.toString() of a natural number: its decimal digits.
RECURSIVE toString(_)
toString(n) == IF n < 10 THEN <<n>> ELSE Append(toString(n \div 10), n % 10)

\* Mutant of Accepted200: the delays of the two later times are exchanged.
Accepted200Swapped(jobId, paymentId, ms) ==
    LET now == ms \div 1000
    IN  [code |-> 200, job_id |-> jobId, payment_id |-> paymentId,
         unlockTime |-> toString(now + UnlockDelay),
         externalDisputeUnlockTime |-> toString(now + SubmitDelay),
         submitResultTime |-> toString(now + DisputeDelay)]

\* The 200 reply of POST /start_job when Date.now() returns ms: now is
\* Math.floor(ms / 1000) and the three times go out as decimal strings.
Accepted200(jobId, paymentId, ms) ==
    LET now == ms \div 1000
    IN  [code |-> 200, job_id |-> jobId, payment_id |-> paymentId,
         unlockTime |-> toString(now + UnlockDelay),
         externalDisputeUnlockTime |-> toString(now + DisputeDelay),
         submitResultTime |-> toString(now + SubmitDelay)]

\* ---------------------------------------------------------------- Init
Init ==
    /\ proc = "buildWallet"
    /\ exitCode = -1
    /\ interval = "unset"
    /\ closeCalls = 0
    /\ closing = 0
    /\ signals = 0
    /\ uuids = 0
    /\ jobs = <<>>
    /\ flows = <<>>
    /\ paid = <<>>
    /\ incCalls = <<>>
    /\ ungated = 0
    /\ oldPending = 0
    /\ res = NoReply
    /\ sampling = 0
    /\ lastSample = "none"
    /\ clock = ClockStart

\* ------------------------------------------------------------- startup

\* await buildWallet(config) returns null: runServer logs and returns.
BuildWalletNull ==
    /\ proc = "buildWallet"
    /\ proc' = "returned"
    /\ UNCHANGED <<exitCode, interval, closeCalls, closing, signals, jobVars, oldVars,
                   res, obsVars, clock>>

\* await buildWallet(config) throws: runServer().catch exits with 1.
BuildWalletThrows ==
    /\ proc = "buildWallet"
    /\ proc' = "exited"
    /\ exitCode' = 1
    /\ UNCHANGED <<interval, closeCalls, closing, signals, jobVars, oldVars, res,
                   obsVars, clock>>

BuildWalletOk ==
    /\ proc = "buildWallet"
    /\ proc' = "configureProviders"
    /\ UNCHANGED <<exitCode, interval, closeCalls, closing, signals, jobVars, oldVars,
                   res, obsVars, clock>>

ConfigureProvidersOk ==
    /\ proc = "configureProviders"
    /\ proc' = "joinContract"
    /\ UNCHANGED <<exitCode, interval, closeCalls, closing, signals, jobVars, oldVars,
                   res, obsVars, clock>>

\* configureProviders or joinContract throws: catch calls wallet.close().
StartupThrows ==
    /\ proc \in {"configureProviders", "joinContract"}
    /\ proc' = "closeOnError"
    /\ closeCalls' = closeCalls + 1
    /\ UNCHANGED <<exitCode, interval, closing, signals, jobVars, oldVars, res, obsVars,
                   clock>>

\* The catch block's wallet.close() returns (exit(1)) or throws (the
\* top-level catch exits with 1).
CloseOnErrorEnds ==
    /\ proc = "closeOnError"
    /\ proc' = "exited"
    /\ exitCode' = 1
    /\ UNCHANGED <<interval, closeCalls, closing, signals, jobVars, oldVars, res,
                   obsVars, clock>>

\* joinContract returns: setInterval, the routes (inputHash = uuidv4()),
\* app.listen and process.on('SIGINT') are set up in one step.
JoinContractOk ==
    /\ proc = "joinContract"
    /\ proc' = "serving"
    /\ interval' = "active"
    /\ uuids' = uuids + 1
    /\ UNCHANGED <<exitCode, closeCalls, closing, signals, jobs, flows, paid, incCalls,
                   oldVars, res, obsVars, clock>>

\* ------------------------------------------------------ POST /start_job

\* Mutant of StartJobReject: the job is registered before the body is
\* validated.
StartJobRejectLate(d) ==
    /\ proc = "serving"
    /\ StartJobCode(d) = 400
    /\ uuids + 2 <= 1 + 2 * MaxJobs
    /\ uuids' = uuids + 2
    /\ jobs' = MapSet(jobs, uuids + 1, [status |-> "awaiting_payment", result |-> Null])
    /\ res' = [code |-> 400, job_id |-> 0, payment_id |-> 0]
    /\ UNCHANGED <<procVars, flows, paid, incCalls, oldVars, obsVars, clock>>

\* Either 400 return: nothing but the reply.
StartJobReject(d) ==
    /\ proc = "serving"
    /\ StartJobCode(d) = 400
    /\ res' = [code |-> 400, job_id |-> 0, payment_id |-> 0]
    /\ UNCHANGED <<procVars, jobVars, oldVars, obsVars, clock>>

\* Mutant of StartJobAccept: the two ids are drawn once, like inputHash, and
\* used for every request.
StartJobAcceptSameIds(d) ==
    /\ proc = "serving"
    /\ Cardinality(DOMAIN flows) < MaxJobs
    /\ StartJobCode(d) = 200
    /\ LET jobId == uuids + 1
           paymentId == uuids + 2
       IN  /\ jobs' = MapSet(jobs, jobId, [status |-> "awaiting_payment", result |-> Null])
           /\ res' = Accepted200(jobId, paymentId, clock)
           /\ flows' = MapSet(flows, jobId,
                  [pc |-> "sleeping", paymentId |-> paymentId, elapsed |-> 0,
                   answered |-> FALSE, outcome |-> "none"])
           /\ paid' = MapSet(paid, jobId, "no")
           /\ incCalls' = MapSet(incCalls, jobId, 0)
    /\ UNCHANGED <<procVars, uuids, oldVars, obsVars, clock>>

\* Mutant of StartJobAccept: the job is not registered when it is created.
StartJobAcceptUnregistered(d) ==
    /\ proc = "serving"
    /\ Cardinality(DOMAIN flows) < MaxJobs
    /\ StartJobCode(d) = 200
    /\ LET jobId == uuids + 1
           paymentId == uuids + 2
       IN  /\ uuids' = uuids + 2
           /\ res' = Accepted200(jobId, paymentId, clock)
           /\ flows' = MapSet(flows, jobId,
                  [pc |-> "sleeping", paymentId |-> paymentId, elapsed |-> 0,
                   answered |-> FALSE, outcome |-> "none"])
           /\ paid' = MapSet(paid, jobId, "no")
           /\ incCalls' = MapSet(incCalls, jobId, 0)
    /\ UNCHANGED <<procVars, jobs, oldVars, obsVars, clock>>

\* The accepted request up to its first await: two uuids, jobs.set, res.json,
\* then the poll loop is entered (confirmed = false, start = Date.now()) and
\* the handler suspends in setTimeout.
StartJobAccept(d) ==
    /\ proc = "serving"
    /\ Cardinality(DOMAIN flows) < MaxJobs
    /\ StartJobCode(d) = 200
    /\ LET jobId == uuids + 1
           paymentId == uuids + 2
       IN  /\ uuids' = uuids + 2
           /\ jobs' = MapSet(jobs, jobId, [status |-> "awaiting_payment", result |-> Null])
           /\ res' = Accepted200(jobId, paymentId, clock)
           /\ flows' = MapSet(flows, jobId,
                  [pc |-> IF LoopCondition(FALSE, 0) THEN "sleeping" ELSE "done",
                   paymentId |-> paymentId, elapsed |-> 0, answered |-> FALSE,
                   outcome |-> "none"])
           /\ paid' = MapSet(paid, jobId, "no")
           /\ incCalls' = MapSet(incCalls, jobId, 0)
    /\ UNCHANGED <<procVars, oldVars, obsVars, clock>>

StartJob(d) == StartJobReject(d) \/ StartJobAccept(d)

\* setTimeout(r, 5000) fires: the flow issues axios.get(.../payment).
TimerFires(j) ==
    /\ proc = "serving"
    /\ j \in DOMAIN flows
    /\ flows[j].pc = "sleeping"
    /\ flows' = [flows EXCEPT ![j].pc = "querying", ![j].elapsed = @ + PollInterval]
    /\ UNCHANGED <<procVars, uuids, jobs, paid, incCalls, oldVars, res, obsVars, clock>>

\* The payment query answers after lat ms with the given status.  The loop
\* either goes round again, or is left: without confirmation the job is set
\* to failed / 'Payment timeout'; with it the job is set to running and
\* api.increment is called.
QueryReturns(j, lat, status) ==
    /\ proc = "serving"
    /\ j \in DOMAIN flows
    /\ flows[j].pc = "querying"
    /\ LET e == flows[j].elapsed + lat
           confirmed == IsSuccess(status)
       IN  /\ paid' = [paid EXCEPT ![j] =
                  IF status = "Success" /\ @ = "no"
                  THEN (IF e > Timeout THEN "late" ELSE "intime")
                  ELSE @]
           /\ IF LoopCondition(confirmed, e)
              THEN /\ flows' = [flows EXCEPT ![j].pc = "sleeping", ![j].elapsed = e,
                                               ![j].answered = TRUE]
                   /\ UNCHANGED <<jobs, incCalls>>
              ELSE IF ~confirmed
              THEN /\ jobs' = MapSet(jobs, j, [status |-> "failed", result |-> "Payment timeout"])
                   /\ flows' = [flows EXCEPT ![j].pc = "done", ![j].elapsed = 0,
                                               ![j].answered = TRUE,
                                               ![j].outcome = "timedOut"]
                   /\ UNCHANGED incCalls
              ELSE /\ jobs' = MapSet(jobs, j, [status |-> "running", result |-> Undefined])
                   /\ incCalls' = [incCalls EXCEPT ![j] = @ + 1]
                   /\ flows' = [flows EXCEPT ![j].pc = "incrementing", ![j].elapsed = 0,
                                               ![j].answered = TRUE,
                                               ![j].outcome = "confirmed"]
    /\ UNCHANGED <<procVars, uuids, oldVars, res, obsVars, clock>>

\* The payment query rejects: the handler's catch sets the job to failed.
QueryThrows(j, err) ==
    /\ proc = "serving"
    /\ j \in DOMAIN flows
    /\ flows[j].pc = "querying"
    /\ jobs' = MapSet(jobs, j, [status |-> "failed", result |-> ErrMessage(err)])
    /\ flows' = [flows EXCEPT ![j].pc = "done", ![j].elapsed = 0, ![j].answered = TRUE,
                              ![j].outcome = "errored"]
    /\ UNCHANGED <<procVars, uuids, paid, incCalls, oldVars, res, obsVars, clock>>

\* Mutant of IncrementReturns: a finished job is dropped from the Map.
IncrementReturnsEvicts(j) ==
    /\ proc = "serving"
    /\ j \in DOMAIN flows
    /\ flows[j].pc = "incrementing"
    /\ jobs' = [x \in DOMAIN jobs \ {j} |-> jobs[x]]
    /\ flows' = [flows EXCEPT ![j].pc = "done"]
    /\ UNCHANGED <<procVars, uuids, paid, incCalls, oldVars, res, obsVars, clock>>

\* await api.increment(counterContract) returns result.txId.
IncrementReturns(j) ==
    /\ proc = "serving"
    /\ j \in DOMAIN flows
    /\ flows[j].pc = "incrementing"
    /\ jobs' = MapSet(jobs, j, [status |-> "completed", result |-> TxId])
    /\ flows' = [flows EXCEPT ![j].pc = "done"]
    /\ UNCHANGED <<procVars, uuids, paid, incCalls, oldVars, res, obsVars, clock>>

\* Mutant of IncrementThrows: the rejected call is tried once more.
IncrementThrowsRetry(j, err) ==
    /\ proc = "serving"
    /\ j \in DOMAIN flows
    /\ flows[j].pc = "incrementing"
    /\ incCalls[j] < 2
    /\ incCalls' = [incCalls EXCEPT ![j] = @ + 1]
    /\ UNCHANGED <<procVars, uuids, jobs, flows, paid, oldVars, res, obsVars, clock>>

\* Mutant of IncrementThrows: no catch, the rejection ends the flow and the
\* registry is left as it was.
IncrementThrowsUncaught(j, err) ==
    /\ proc = "serving"
    /\ j \in DOMAIN flows
    /\ flows[j].pc = "incrementing"
    /\ flows' = [flows EXCEPT ![j].pc = "done"]
    /\ UNCHANGED <<procVars, uuids, jobs, paid, incCalls, oldVars, res, obsVars, clock>>

\* Mutant of IncrementThrows: a rejection that arrives after the flow has
\* finished still runs the catch.
IncrementThrowsLate(j, err) ==
    /\ proc = "serving"
    /\ j \in DOMAIN flows
    /\ flows[j].pc \in {"incrementing", "done"}
    /\ jobs' = MapSet(jobs, j, [status |-> "failed", result |-> ErrMessage(err)])
    /\ flows' = [flows EXCEPT ![j].pc = "done"]
    /\ UNCHANGED <<procVars, uuids, paid, incCalls, oldVars, res, obsVars, clock>>

\* await api.increment(counterContract) rejects: the same catch.
IncrementThrows(j, err) ==
    /\ proc = "serving"
    /\ j \in DOMAIN flows
    /\ flows[j].pc = "incrementing"
    /\ jobs' = MapSet(jobs, j, [status |-> "failed", result |-> ErrMessage(err)])
    /\ flows' = [flows EXCEPT ![j].pc = "done"]
    /\ UNCHANGED <<procVars, uuids, paid, incCalls, oldVars, res, obsVars, clock>>

\* -------------------------------------------------- POST /start_job_old

\* A valid request calls api.increment at once and suspends in it.
OldStartJob(d) ==
    /\ proc = "serving"
    /\ OldStartJobCode(d) = 200
    /\ ungated < MaxOldCalls
    /\ ungated' = ungated + 1
    /\ oldPending' = oldPending + 1
    /\ UNCHANGED <<procVars, jobVars, res, obsVars, clock>>

\* Its api.increment returns or throws: the reply is 200 or 500.
OldIncrementEnds ==
    /\ proc = "serving"
    /\ oldPending > 0
    /\ oldPending' = oldPending - 1
    /\ UNCHANGED <<procVars, jobVars, ungated, res, obsVars, clock>>

\* ---------------------------------------------------------------- SIGINT

\* Mutant of Sigint: the interval is not cleared.
SigintKeepsTimer ==
    /\ proc = "serving"
    /\ signals < MaxSignals
    /\ signals' = signals + 1
    /\ closeCalls' = closeCalls + 1
    /\ closing' = closing + 1
    /\ UNCHANGED <<proc, exitCode, interval, jobVars, oldVars, res, obsVars, clock>>

\* process.on('SIGINT'): clearInterval, then wallet.close() is awaited.
Sigint ==
    /\ proc = "serving"
    /\ signals < MaxSignals
    /\ signals' = signals + 1
    /\ interval' = "cleared"
    /\ closeCalls' = closeCalls + 1
    /\ closing' = closing + 1
    /\ UNCHANGED <<proc, exitCode, jobVars, oldVars, res, obsVars, clock>>

\* A handler's wallet.close() returns: process.exit(0).
CloseReturns ==
    /\ proc = "serving"
    /\ closing > 0
    /\ proc' = "exited"
    /\ exitCode' = 0
    /\ closing' = closing - 1
    /\ UNCHANGED <<interval, closeCalls, signals, jobVars, oldVars, res, obsVars, clock>>

\* ------------------------------------------------------------- observer

\* api.displayCounterValue resolves with a counter value or with null.
CounterValues == {Null, "7"}

\* The setInterval callback runs: logLedgerState is called and suspends in
\* await api.displayCounterValue.
Tick ==
    /\ proc = "serving"
    /\ interval = "active"
    /\ sampling < MaxSamples
    /\ sampling' = sampling + 1
    /\ UNCHANGED <<procVars, jobVars, oldVars, res, lastSample, clock>>

\* displayCounterValue resolves: a value is rendered and logged, null is
\* passed over.
SampleReturns(v) ==
    /\ proc = "serving"
    /\ sampling > 0
    /\ sampling' = sampling - 1
    /\ lastSample' = IF v # Null THEN "logged" ELSE "skipped"
    /\ UNCHANGED <<procVars, jobVars, oldVars, res, clock>>

\* Mutant of SampleThrows: the failed call stops the timer.
SampleThrowsStopsTimer ==
    /\ proc = "serving"
    /\ sampling > 0
    /\ sampling' = sampling - 1
    /\ lastSample' = "failed"
    /\ interval' = "cleared"
    /\ UNCHANGED <<proc, exitCode, closeCalls, closing, signals, jobVars, oldVars, res,
                   clock>>

\* displayCounterValue rejects or the rendering throws: the catch of
\* logLedgerState logs the error.
SampleThrows ==
    /\ proc = "serving"
    /\ sampling > 0
    /\ sampling' = sampling - 1
    /\ lastSample' = "failed"
    /\ UNCHANGED <<procVars, jobVars, oldVars, res, clock>>

\* ----------------------------------------------------------- wall clock

\* Time passes: Date.now() returns a later reading.
ClockTicks ==
    /\ clock < ClockStart + MaxClock * ClockTick
    /\ clock' = clock + ClockTick
    /\ UNCHANGED <<procVars, jobVars, oldVars, res, obsVars>>

\* ------------------------------------------------------------------ Next
Startup ==
    \/ BuildWalletNull
    \/ BuildWalletThrows
    \/ BuildWalletOk
    \/ ConfigureProvidersOk
    \/ StartupThrows
    \/ CloseOnErrorEnds
    \/ JoinContractOk

JobFlow ==
    \/ \E d \in InputData : StartJob(d)
    \/ \E j \in Uuids : TimerFires(j)
    \/ \E j \in Uuids, lat \in Latencies, s \in PaymentStatuses : QueryReturns(j, lat, s)
    \/ \E j \in Uuids, err \in Thrown : QueryThrows(j, err)
    \/ \E j \in Uuids : IncrementReturns(j)
    \/ \E j \in Uuids, err \in Thrown : IncrementThrows(j, err)

OldRoute ==
    \/ \E d \in InputData : OldStartJob(d)
    \/ OldIncrementEnds

Shutdown ==
    \/ Sigint
    \/ CloseReturns

Observer ==
    \/ Tick
    \/ \E v \in CounterValues : SampleReturns(v)
    \/ SampleThrows

Next == Startup \/ JobFlow \/ OldRoute \/ Observer \/ Shutdown

\* The whole server, with every Date.now() of /start_job reading ClockStart.
Spec == Init /\ [][Next]_vars

\* The job lifecycles alone: every request is an accepted one, no
\* /start_job_old request and no SIGINT arrives.
Lifecycle(j) ==
    \/ TimerFires(j)
    \/ \E lat \in Latencies, s \in PaymentStatuses : QueryReturns(j, lat, s)
    \/ \E err \in Thrown : QueryThrows(j, err)
    \/ IncrementReturns(j)
    \/ \E err \in Thrown : IncrementThrows(j, err)

JobNext ==
    \/ Startup
    \/ \E d \in InputData : StartJobAccept(d)
    \/ \E j \in Uuids : Lifecycle(j)

JobSpec == Init /\ [][JobNext]_vars

\* The gateway: every request body against a registry of few jobs.
GatewayNext ==
    \/ Startup
    \/ (\E d \in InputData : StartJob(d)) /\ Cardinality(DOMAIN flows') <= MaxFewJobs
    \/ \E j \in Uuids : Lifecycle(j)

GatewaySpec == Init /\ [][GatewayNext]_vars

\* The same under fair scheduling of the flows: a timer that is set fires, a
\* pending external call returns or throws, and a flow that can resume does.
\* No SIGINT arrives.
LiveSpec == GatewaySpec /\ \A j \in Uuids : WF_vars(Lifecycle(j))

\* The server without /start_job requests: startup, observer, old route and
\* SIGINT.
ObserverNext == Startup \/ Observer \/ OldRoute \/ Shutdown

ObserverSpec == Init /\ [][ObserverNext]_vars

\* The timer keeps firing while the interval is set, and every
\* displayCounterValue call settles.
ObserverLiveSpec ==
    /\ ObserverSpec
    /\ WF_vars(Tick)
    /\ WF_vars((\E v \in CounterValues : SampleReturns(v)) \/ SampleThrows)

\* Startup and the /start_job handler up to its reply, while the wall clock
\* advances: the flows the requests start stay suspended.
TimeNext ==
    \/ Startup
    \/ \E d \in InputData : StartJob(d)
    \/ ClockTicks

TimeSpec == Init /\ [][TimeNext]_vars

\* ======================================================================
\* Claims
\* ======================================================================

Terminal == {"completed", "failed"}

\* C1: every api.increment call the server makes is made by the flow of a job
\* whose payment query had answered Success before, no job's flow calls it
\* twice, and no HTTP route calls it outside a job.
C1_PaymentGating ==
    /\ ungated = 0
    /\ \A j \in DOMAIN incCalls :
          /\ incCalls[j] <= 1
          /\ incCalls[j] > 0 => paid[j] # "no"

\* The steps of the job state machine (spec 4.2), and staying put.
StatusStep(from, to) ==
    \/ from = to
    \/ from = "awaiting_payment" /\ to \in {"running", "failed"}
    \/ from = "running" /\ to \in Terminal

\* C2: a job's status only moves awaiting_payment -> running -> completed or
\* failed, or awaiting_payment -> failed: a terminal status never changes, a
\* running job never goes back to awaiting_payment, a job becomes completed
\* only from running, and no entry leaves the registry.
C2_StatusMonotonic ==
    [][\A j \in DOMAIN jobs :
          /\ j \in DOMAIN jobs'
          /\ StatusStep(jobs[j].status, jobs'[j].status)
          /\ jobs[j].status \in Terminal => jobs'[j].status = jobs[j].status
          /\ jobs[j].status = "running" => jobs'[j].status # "awaiting_payment"
          /\ jobs'[j].status = "completed" => jobs[j].status \in {"running", "completed"}]_vars

\* C2 witness: one job went through running to completed while another
\* failed.
C2_Witness ==
    \E j, k \in DOMAIN jobs :
        /\ jobs[j].status = "completed"
        /\ jobs[k].status = "failed"
        /\ flows[j].pc = "done"

\* C3: a job is running or completed only if a payment query for it has
\* answered Success.
C3_RunningOnlyAfterSuccess ==
    \A j \in DOMAIN jobs :
        jobs[j].status \in {"running", "completed"} => paid[j] # "no"

\* C3 witness: a job is running after its query answered Success while
\* another job, never confirmed, still awaits payment after an answer.
C3_Witness ==
    \E j, k \in DOMAIN jobs :
        /\ jobs[j].status = "running" /\ paid[j] # "no"
        /\ jobs[k].status = "awaiting_payment" /\ flows[k].answered

\* No payment query of job j answered Success within 120 s of its poll start.
C4_NoSuccessInTime(j) == paid[j] # "intime"

\* C4: a job whose payment queries did not answer Success within 120 s of the
\* poll start never becomes running or completed, so it can only end failed:
\* a Success first answered after the deadline does not start the job.
C4_NoRunAfterDeadline ==
    \A j \in DOMAIN jobs :
        C4_NoSuccessInTime(j) => jobs[j].status \notin {"running", "completed"}

\* C5: a payment query that throws before the deadline leaves the job in
\* awaiting_payment and the flow goes on polling.
C5_QueryFailureKeepsPolling ==
    [][\A j \in DOMAIN flows, err \in Thrown :
          (flows[j].elapsed < Timeout /\ QueryThrows(j, err))
              => /\ jobs'[j].status = "awaiting_payment"
                 /\ flows'[j].pc = "sleeping"]_vars

IsTerminal(j) == j \in DOMAIN jobs /\ jobs[j].status \in Terminal

\* C6: with no SIGINT and fair scheduling, a job whose payment query answered
\* Success within 120 s of the poll start eventually is completed or failed,
\* and a job that is completed or failed keeps that status for ever.
C6_ConfirmedJobTerminates ==
    /\ \A j \in Uuids : (j \in DOMAIN paid /\ paid[j] = "intime") ~> IsTerminal(j)
    /\ [][\A j \in DOMAIN jobs :
             jobs[j].status \in Terminal =>
                 j \in DOMAIN jobs' /\ jobs'[j].status = jobs[j].status]_vars

\* C6 witness: a job confirmed in time has reached a terminal status and its
\* flow has ended.
C6_Witness ==
    \E j \in DOMAIN jobs :
        /\ paid[j] = "intime"
        /\ jobs[j].status \in Terminal
        /\ flows[j].pc = "done"

AwaitingReply(j) ==
    [code |-> 200, job_id |-> j, status |-> "awaiting_payment", result |-> Null]

\* C7: from the step that sends the 200 reply of /start_job until the first
\* payment query of the job has returned, GET /status of the job answers 200,
\* awaiting_payment, result null; and the reply is sent by the step that
\* creates the job, which leaves the flow in its first wait, before any
\* payment query.
C7_VisibleOnCreation ==
    /\ [](\A j \in DOMAIN flows : ~flows[j].answered => Status(j) = AwaitingReply(j))
    /\ [][(res' # res /\ res'.code = 200) =>
                 /\ \E d \in InputData : StartJobAccept(d)
                 /\ res'.job_id \in DOMAIN flows' \ DOMAIN flows
                 /\ flows'[res'.job_id].pc = "sleeping"
                 /\ flows'[res'.job_id].elapsed = 0
                 /\ ~flows'[res'.job_id].answered
                 /\ StatusOf(jobs', res'.job_id) = AwaitingReply(res'.job_id)]_vars

\* C7 witness: the first payment query of a freshly created job is in flight
\* while an older job has already finished.
C7_Witness ==
    \E j, k \in DOMAIN flows :
        /\ flows[j].pc = "querying" /\ ~flows[j].answered
        /\ res.job_id = j
        /\ flows[k].pc = "done"

\* input_data holds an entry {key: 'task', value: 'increment'}.
ContainsTaskIncrement(d) ==
    d.isArray /\ \E i \in 1..Len(d.items) : d.items[i] = [key |-> "task", value |-> "increment"]

\* The first entry of input_data whose key is 'task' has the value 'increment'.
FirstTaskIsIncrement(d) ==
    d.isArray /\ \E i \in 1..Len(d.items) :
        /\ d.items[i] = [key |-> "task", value |-> "increment"]
        /\ \A k \in 1..(i - 1) : d.items[k].key # "task"

\* A step of /start_job with body d that sends a reply other than the last one
\* (a request answered like the one before it changes nothing at all).
StartJobStep(d) == res' # res /\ StartJob(d)

\* The reply of a /start_job step and whether it created a job.
Accepted == res'.code = 200 /\ res'.job_id \in DOMAIN jobs' \ DOMAIN jobs
Rejected == res'.code = 400 /\ jobs' = jobs

\* C8 as claimed: /start_job answers 200 and creates a job iff input_data is an
\* array holding some entry task = increment, and answers 400 otherwise.
C8_AcceptsIffContains ==
    [][\A d \in InputData :
          StartJobStep(d) => IF ContainsTaskIncrement(d) THEN Accepted ELSE Rejected]_vars

\* C8 amended: /start_job answers 200 and creates a job iff input_data is an
\* array whose first entry with key 'task' has the value 'increment', and
\* answers 400 otherwise.
C8_AcceptsIffFirstTask ==
    [][\A d \in InputData :
          StartJobStep(d) => IF FirstTaskIsIncrement(d) THEN Accepted ELSE Rejected]_vars

\* C8 witness: a body was rejected after a body was accepted.
C8_Witness ==
    /\ res.code = 400
    /\ \E j \in DOMAIN jobs : jobs[j].status = "awaiting_payment"

\* C9: a /start_job request answered 400 changes nothing but the reply: no
\* registry entry, no uuid, no flow, no payment query, no increment.
C9_RejectHasNoEffect ==
    [][\A d \in InputData :
          (StartJobStep(d) /\ res'.code = 400)
              => UNCHANGED <<uuids, jobs, flows, paid, incCalls, ungated, oldPending>>]_vars

\* C9 witness: a request was rejected while a job's payment query was in
\* flight.
C9_Witness ==
    /\ res.code = 400
    /\ \E j \in DOMAIN flows : flows[j].pc = "querying"

\* C10: wallet.close() is invoked at most once however many SIGINTs arrive,
\* and exactly once by the time the handler exits the process.
C10_SingleRelease ==
    /\ closeCalls <= 1
    /\ (proc = "exited" /\ exitCode = 0) => closeCalls = 1

\* C11: every startup failure ends in process.exit with a non-zero code:
\* runServer never just returns, and a process that exits before the timer
\* was set exits with 1.
C11_StartupFailureExits ==
    /\ proc # "returned"
    /\ (proc = "exited" /\ interval = "unset") => exitCode = 1

\* A result that is a value: neither null nor absent.
HasResult(r) == r \notin {Null, Undefined}

\* The message property of the Errors that can be thrown.
ErrorMessages == {err.message : err \in {t \in Thrown : t.isError}}

\* The result is written by the registry update that makes the job completed
\* or failed, and not after it.
ResultWrittenOnce ==
    \A j \in DOMAIN jobs :
        /\ jobs[j].status \in Terminal => jobs'[j] = jobs[j]
        /\ (HasResult(jobs'[j].result) /\ ~HasResult(jobs[j].result))
               => jobs'[j].status \in Terminal

\* The results a job can hold, given the results a failed job can hold.
ResultFitsStatus(failures) ==
    \A j \in DOMAIN jobs :
        /\ jobs[j].status \in {"awaiting_payment", "running"} => ~HasResult(jobs[j].result)
        /\ jobs[j].status = "completed" => jobs[j].result = TxId
        /\ jobs[j].status = "failed" => jobs[j].result \in failures

\* C12 as claimed: the result is null or absent while the job is
\* awaiting_payment or running, is written once, with the terminal status; a
\* completed job holds the txId of its increment, a failed job 'Payment
\* timeout' or the message of the error that failed it.
C12_ResultWithStatus ==
    /\ [] ResultFitsStatus({"Payment timeout"} \cup ErrorMessages)
    /\ [][ResultWrittenOnce]_vars

\* C12 amended: as claimed, but a failed job holds 'Payment timeout', the
\* message of the Error that failed it, or 'Unknown error' when what was
\* thrown is not an Error.
C12_ResultWithStatusOrUnknown ==
    /\ [] ResultFitsStatus({"Payment timeout", "Unknown error"} \cup ErrorMessages)
    /\ [][ResultWrittenOnce]_vars

\* C12 witness: one job completed with its txId while another failed on a
\* thrown value that is not an Error.
C12_Witness ==
    \E j, k \in DOMAIN jobs :
        /\ jobs[j] = [status |-> "completed", result |-> TxId]
        /\ jobs[k] = [status |-> "failed", result |-> "Unknown error"]

C14_StatusKnowsIssued ==
    /\ [](\A id \in Uuids \cup {NoJobId} :
             IF id \in DOMAIN flows
             THEN /\ id \in DOMAIN jobs
                  /\ Status(id) = [code |-> 200, job_id |-> id,
                                   status |-> jobs[id].status, result |-> jobs[id].result]
             ELSE Status(id).code = 404)
    /\ [][DOMAIN jobs \subseteq DOMAIN jobs']_vars

\* C14 witness: one job has finished, another is polling, and the uuid given
\* out as the first job's payment_id is no job.
C14_Witness ==
    \E j, k \in DOMAIN flows :
        /\ flows[j].pc = "done" /\ Status(j).status = "completed"
        /\ flows[k].pc = "querying"
        /\ Status(flows[j].paymentId).code = 404

\* A step starts the flow of job j: an accepted /start_job left it suspended
\* in its first wait.
FlowStarts(j) ==
    /\ j \in DOMAIN flows'
    /\ flows'[j].pc = "sleeping" /\ ~flows'[j].answered
    /\ j \in DOMAIN flows => flows'[j] # flows[j]

\* C15: an accepted /start_job, which is what starts a flow, returns a
\* job_id that is no key of the registry and has no flow, and a payment_id no
\* other job has, and leaves every other entry and flow as it was; no two
\* jobs share a payment_id, and no payment_id is a job_id.
C15_DistinctIds ==
    /\ [](\A j, k \in DOMAIN flows :
             /\ flows[j].paymentId # k
             /\ j # k => flows[j].paymentId # flows[k].paymentId)
    /\ [][\A j \in DOMAIN flows' :
             FlowStarts(j) =>
                 /\ res'.job_id = j
                 /\ res'.payment_id = flows'[j].paymentId
                 /\ j \notin DOMAIN jobs
                 /\ j \notin DOMAIN flows
                 /\ \A k \in DOMAIN flows :
                        /\ flows[k].paymentId # res'.payment_id
                        /\ flows'[k] = flows[k]
                        /\ jobs'[k] = jobs[k]]_vars

\* C15 witness: two jobs are in the registry, the first one past its poll
\* loop when the second was accepted.
C15_Witness ==
    \E j, k \in DOMAIN flows :
        /\ j # k
        /\ flows[j].pc = "done"
        /\ flows[k].pc = "sleeping" /\ flows[k].elapsed = 0
        /\ res.job_id = k

\* C16: a logLedgerState call that fails leaves the interval and the process
\* as they were, and when a call has failed and no SIGINT has been handled,
\* the timer fires again and a new displayCounterValue call is made (or a
\* SIGINT is handled first).
C16_FailedTickKeepsTimer ==
    /\ [][SampleThrows => (interval' = interval /\ proc' = proc /\ exitCode' = exitCode)]_vars
    /\ (lastSample = "failed" /\ sampling = 0 /\ signals = 0)
           ~> (sampling > 0 \/ signals > 0)

\* C16 witness: after a failed call the next call is in flight, no SIGINT
\* handled.
C16_Witness == lastSample = "failed" /\ sampling > 0 /\ signals = 0 /\ interval = "active"

\* C17: the interval is set once, by the step in which joinContract returned
\* on a wallet that was built and not closed; it changes otherwise only by
\* being cleared in a SIGINT handler; a SIGINT handler's wallet.close() is
\* invoked with the interval cleared; exit code 0 is set only by a step in
\* which a wallet.close() of a SIGINT handler returns; and a logLedgerState
\* call starts only while the interval is active.
C17_ObserverShutdownOrder ==
    [][/\ interval' # interval =>
              \/ /\ interval = "unset" /\ interval' = "active"
                 /\ proc = "joinContract" /\ proc' = "serving"
                 /\ closeCalls = 0
              \/ interval' = "cleared" /\ signals' = signals + 1
       /\ (closeCalls' > closeCalls /\ proc = "serving") => interval' = "cleared"
       /\ (exitCode' = 0 /\ exitCode # 0) =>
              /\ interval = "cleared"
              /\ closing > 0 /\ closing' = closing - 1
       /\ sampling' > sampling => (interval = "active" /\ interval' = "active")]_vars

\* C17 witness: the observer sampled, then a SIGINT stopped it and the
\* process exited with 0 after the one wallet.close().
C17_Witness ==
    /\ lastSample # "none"
    /\ interval = "cleared"
    /\ closeCalls = 1
    /\ proc = "exited" /\ exitCode = 0

\* A client's reading of a decimal string.
RECURSIVE ParseInt(_)
ParseInt(s) ==
    IF Len(s) = 0 THEN 0
    ELSE 10 * ParseInt(SubSeq(s, 1, Len(s) - 1)) + s[Len(s)]

\* C18: an accepted /start_job made when the wall clock reads t seconds
\* (rounded down) answers with the decimal strings of unlockTime = t + 600,
\* submitResultTime = t + 1200 and externalDisputeUnlockTime = t + 1800, so
\* that unlockTime < submitResultTime < externalDisputeUnlockTime.
C18_TimesFromCreation ==
    [][\A d \in InputData :
          (res' # res /\ StartJobAccept(d)) =>
              LET t == clock \div 1000
                  unlockTime == ParseInt(res'.unlockTime)
                  submitResultTime == ParseInt(res'.submitResultTime)
                  externalDisputeUnlockTime == ParseInt(res'.externalDisputeUnlockTime)
              IN  /\ unlockTime = t + 600
                  /\ submitResultTime = t + 1200
                  /\ externalDisputeUnlockTime = t + 1800
                  /\ unlockTime < submitResultTime
                  /\ submitResultTime < externalDisputeUnlockTime]_vars

\* C18 witness: a request accepted in second 1000, after the clock passed
\* from a three-digit to a four-digit second.
C18_Witness ==
    /\ res.code = 200
    /\ clock > ClockStart
    /\ res.unlockTime = <<1, 6, 0, 0>>
    /\ res.submitResultTime = <<2, 2, 0, 0>>
    /\ res.externalDisputeUnlockTime = <<2, 8, 0, 0>>

\* The number of whole poll intervals in the time a flow has polled for.
QuerySlot(elapsed) == elapsed \div PollInterval

\* Poll intervals that fit the deadline.
MaxQueries == Timeout \div PollInterval

\* C19: a flow issues a payment query only after a wait of PollInterval, at
\* a time that is a later poll interval than any before and one of the
\* Timeout / PollInterval = 24 intervals up to the deadline (so at most 24
\* queries); it leaves the loop from a query, with one outcome that then
\* stays and fits what the job shows: confirmed, timed out or errored; and
\* every accepted job's flow does leave the loop.
C19_PollerTerminates ==
    /\ [][\A j \in DOMAIN flows :
             /\ (flows'[j].pc = "querying" /\ flows[j].pc # "querying") =>
                    /\ flows[j].pc = "sleeping"
                    /\ flows'[j].elapsed >= flows[j].elapsed + PollInterval
                    /\ QuerySlot(flows'[j].elapsed) \in
                           (QuerySlot(flows[j].elapsed) + 1)..MaxQueries
             /\ flows'[j].pc \in {"sleeping", "querying"} =>
                    flows'[j].elapsed >= flows[j].elapsed
             /\ flows'[j].outcome # flows[j].outcome =>
                    flows[j].pc = "querying" /\ flows[j].outcome = "none"]_vars
    /\ [](\A j \in DOMAIN flows :
             /\ flows[j].outcome = "none" <=> flows[j].pc \in {"sleeping", "querying"}
             /\ flows[j].outcome = "confirmed" => (paid[j] # "no" /\ incCalls[j] = 1)
             /\ flows[j].outcome = "timedOut" =>
                    /\ paid[j] = "no" /\ incCalls[j] = 0
                    /\ jobs[j] = [status |-> "failed", result |-> "Payment timeout"]
             /\ flows[j].outcome = "errored" =>
                    /\ paid[j] = "no" /\ incCalls[j] = 0
                    /\ jobs[j].status = "failed" /\ jobs[j].result # "Payment timeout")
    /\ \A j \in Uuids :
           (j \in DOMAIN flows) ~> (j \in DOMAIN flows /\ flows[j].outcome # "none")

\* C19 witness: a flow polled until the deadline and left the loop timed out.
C19_Witness == \E j \in DOMAIN flows : flows[j].outcome = "timedOut"

\* C20: once wallet.close() has been invoked, no flow calls api.increment
\* and no logLedgerState call is started.
C20_NoUseAfterClose ==
    [][closeCalls > 0 =>
           /\ \A j \in DOMAIN incCalls : incCalls'[j] = incCalls[j]
           /\ sampling' <= sampling]_vars

====
